---- MODULE Spec2Model ----
(***************************************************************************)
(* Model of src/scode.py: the RPT report batch editor.                     *)
(*                                                                         *)
(* Text is modelled at character level: a string is a sequence of          *)
(* one-character strings, a line is a string without its terminator, a     *)
(* file is a sequence of lines.  A DataFrame is a record                   *)
(*   [columns |-> sequence of names, rows |-> sequence of rows]            *)
(* where every row is a sequence of cells aligned with columns.            *)
(***************************************************************************)
EXTENDS Integers, Sequences, FiniteSets, TLC

VARIABLES
    pc,                   \* position of the script / of the call under study
    err,                  \* "" or the exception that ended the run
    lines,                \* f.readlines() of the source file (src/scode.py:49)
    has_excel,            \* src/scode.py:276
    update_values_df,     \* the instruction table (src/scode.py:279)
    rpt_data,             \* the DataFrame of the file being processed
    header_line,          \* framing returned by read_rpt_file
    footer_lines,
    columns_with_quotes,
    column_marker,
    i,                    \* position in the instruction group being iterated
    arg_data,             \* rpt_data as read_rpt_file returned it (the
                          \* argument of apply_updates)
    arg_quotes,           \* columns_with_quotes as read_rpt_file returned it
    prev_data,            \* rpt_data before the latest loop iteration
    prev_quotes,          \* columns_with_quotes before the latest loop iteration
    last,                 \* <<>> or <<row>>: the instruction row handled latest
    branch,               \* the arm of apply_updates the latest iteration took
    rows_written,         \* mask.sum() of the latest update (the printed count)
    out_lines,            \* the lines write_rpt_file wrote
    series,               \* smart_match argument
    target_value,         \* smart_match argument
    result                \* smart_match return value

vars == <<pc, err, lines, has_excel, update_values_df, rpt_data, header_line,
          footer_lines, columns_with_quotes, column_marker, i, arg_data,
          arg_quotes, prev_data, prev_quotes, last, branch, rows_written,
          out_lines, series, target_value, result>>

(***************************************************************************)
(* Bounds of the model.                                                    *)
(***************************************************************************)
MaxSeries == 4      \* longest column handed to smart_match on its own
MaxInstr == 2       \* longest instruction table of the update engine runs
MaxBody == 3        \* most lines between the header line and the footer

(***************************************************************************)
(* Python values.                                                          *)
(***************************************************************************)
\* None, and a missing (NaN) spreadsheet cell: distinct from every string,
\* since strings hold one-character elements only.
None == <<"None">>
NaN == <<"NaN">>

Whitespace == {" ", "\t"}
Digits == {"0", "1", "2", "3", "4", "5", "6", "7", "8", "9"}

DigitVal(c) ==
    CASE c = "0" -> 0 [] c = "1" -> 1 [] c = "2" -> 2 [] c = "3" -> 3
      [] c = "4" -> 4 [] c = "5" -> 5 [] c = "6" -> 6 [] c = "7" -> 7
      [] c = "8" -> 8 [] c = "9" -> 9

\* all sequences over S of length at most n
BoundedSeq(S, n) == UNION {[1..k -> S] : k \in 0..n}

(***************************************************************************)
(* str methods.                                                            *)
(***************************************************************************)
RECURSIVE lstrip(_, _)
lstrip(s, chars) ==
    IF s # <<>> /\ Head(s) \in chars THEN lstrip(Tail(s), chars) ELSE s

RECURSIVE rstrip(_, _)
rstrip(s, chars) ==
    IF s # <<>> /\ s[Len(s)] \in chars
    THEN rstrip(SubSeq(s, 1, Len(s) - 1), chars)
    ELSE s

\* s.strip(chars); s.strip() is strip(s, Whitespace)
strip(s, chars) == rstrip(lstrip(s, chars), chars)

startswith(s, prefix) ==
    /\ Len(s) >= Len(prefix)
    /\ SubSeq(s, 1, Len(prefix)) = prefix

endswith(s, suffix) ==
    /\ Len(s) >= Len(suffix)
    /\ SubSeq(s, Len(s) - Len(suffix) + 1, Len(s)) = suffix

\* s.split(sep) for a one-character sep: always at least one field
RECURSIVE split(_, _)
split(s, sep) ==
    IF \E k \in 1..Len(s) : s[k] = sep
    THEN LET k == CHOOSE k \in 1..Len(s) :
                      s[k] = sep /\ \A j \in 1..(k - 1) : s[j] # sep
         IN <<SubSeq(s, 1, k - 1)>> \o split(SubSeq(s, k + 1, Len(s)), sep)
    ELSE <<s>>

\* s.split(): runs of whitespace separate, no empty token
RECURSIVE split_ws(_)
split_ws(s) ==
    LET t == lstrip(s, Whitespace)
    IN IF t = <<>> THEN <<>>
       ELSE IF \E k \in 1..Len(t) : t[k] \in Whitespace
            THEN LET k == CHOOSE k \in 1..Len(t) :
                              t[k] \in Whitespace
                              /\ \A j \in 1..(k - 1) : t[j] \notin Whitespace
                 IN <<SubSeq(t, 1, k - 1)>> \o split_ws(SubSeq(t, k, Len(t)))
            ELSE <<t>>

\* sep.join(parts)
RECURSIVE join(_, _)
join(parts, sep) ==
    IF parts = <<>> THEN <<>>
    ELSE IF Len(parts) = 1 THEN parts[1]
    ELSE parts[1] \o sep \o join(Tail(parts), sep)

\* str(n) of a non-negative int
RECURSIVE str_int(_)
str_int(n) ==
    LET d == CHOOSE c \in Digits : DigitVal(c) = n % 10
    IN IF n < 10 THEN <<d>> ELSE str_int(n \div 10) \o <<d>>

(***************************************************************************)
(* pd.to_numeric on the text this model feeds it: unsigned decimal         *)
(* numerals "12", "05", "5.0", "5.", ".5".  Any other text fails to parse  *)
(* (the input sets hold no sign, exponent, blank or inf/nan text).         *)
(***************************************************************************)
IsDigits(s) == \A k \in 1..Len(s) : s[k] \in Digits

DotAt(s) ==
    IF \E k \in 1..Len(s) : s[k] = "."
    THEN CHOOSE k \in 1..Len(s) : s[k] = "." /\ \A j \in 1..(k - 1) : s[j] # "."
    ELSE Len(s) + 1

IntDigits(s) == SubSeq(s, 1, DotAt(s) - 1)
FracDigits(s) == SubSeq(s, DotAt(s) + 1, Len(s))

\* does the text parse as a number
parses_numeric(s) ==
    /\ s # None /\ s # NaN
    /\ IsDigits(IntDigits(s))
    /\ IsDigits(FracDigits(s))
    /\ Len(IntDigits(s)) + Len(FracDigits(s)) >= 1

RECURSIVE IntOf(_)
IntOf(ds) ==
    IF ds = <<>> THEN 0
    ELSE 10 * IntOf(SubSeq(ds, 1, Len(ds) - 1)) + DigitVal(ds[Len(ds)])

\* the number a numeral denotes: integer part and fraction digits with the
\* trailing zeros dropped, so that "5", "05", "5.0" denote the same number
numeric_value(s) == <<IntOf(IntDigits(s)), rstrip(FracDigits(s), {"0"})>>

(***************************************************************************)
(* smart_match (src/scode.py:172-184): one boolean per row.                *)
(***************************************************************************)
\* faulty variant: text comparison only, no numeric coercion
smart_match_string_only(ser, target) ==
    [r \in 1..Len(ser) |-> ser[r] = target]

\* lines 172-184
smart_match(ser, target) ==
    IF parses_numeric(target)
    THEN LET target_numeric == numeric_value(target)
             valid_numeric == [r \in 1..Len(ser) |-> parses_numeric(ser[r])]
             numeric_mask == [r \in 1..Len(ser) |->
                                 /\ valid_numeric[r]
                                 /\ numeric_value(ser[r]) = target_numeric]
             string_mask == [r \in 1..Len(ser) |-> ser[r] = target]
         IN [r \in 1..Len(ser) |->
                IF valid_numeric[r] THEN numeric_mask[r] ELSE string_mask[r]]
    ELSE [r \in 1..Len(ser) |-> ser[r] = target]

(***************************************************************************)
(* DataFrame operations used by the script.                                *)
(***************************************************************************)
EmptyDataFrame == [columns |-> <<>>, rows |-> <<>>]     \* pd.DataFrame()

Range(f) == {f[k] : k \in DOMAIN f}

\* column_name in rpt_data.columns
has_column(df, name) == name \in Range(df.columns)

col_index(df, name) == CHOOSE k \in 1..Len(df.columns) : df.columns[k] = name

\* rpt_data[name]
column(df, name) == [r \in 1..Len(df.rows) |-> df.rows[r][col_index(df, name)]]

\* mask.sum()
mask_sum(mask) == Cardinality({r \in DOMAIN mask : mask[r]})

\* rpt_data.loc[mask, name] = value
set_where(df, mask, name, value) ==
    [df EXCEPT !.rows =
        [r \in 1..Len(df.rows) |->
            IF mask[r]
            THEN [df.rows[r] EXCEPT ![col_index(df, name)] = value]
            ELSE df.rows[r]]]

\* rpt_data[name] = value: overwrite the column, or append it at the end
set_column(df, name, value) ==
    IF has_column(df, name)
    THEN set_where(df, [r \in 1..Len(df.rows) |-> TRUE], name, value)
    ELSE [columns |-> Append(df.columns, name),
          rows |-> [r \in 1..Len(df.rows) |-> Append(df.rows[r], value)]]

\* rpt_data.drop(columns=[name])
drop_column(df, name) ==
    LET keep == {k \in 1..Len(df.columns) : df.columns[k] # name}
        pick(s) == SelectSeq([k \in 1..Len(s) |-> <<k, s[k]>>],
                             LAMBDA e : e[1] \in keep)
        vals(s) == [k \in 1..Len(pick(s)) |-> pick(s)[k][2]]
    IN [columns |-> vals(df.columns),
        rows |-> [r \in 1..Len(df.rows) |-> vals(df.rows[r])]]

\* pd.notna(row.get(field))
notna(v) == v # NaN /\ v # None

(***************************************************************************)
(* apply_updates (src/scode.py:187-256).  An instruction row is a record   *)
(* [Action, ColumnName, NewValue, LookupColumn, LookupValue, CurrentValue].*)
(* Each loop body yields the new DataFrame, the new quoted-column set, the *)
(* arm it took and the number of rows it assigned.                         *)
(***************************************************************************)
add_actions(df) == SelectSeq(df, LAMBDA row : row.Action = "add")
delete_actions(df) == SelectSeq(df, LAMBDA row : row.Action = "delete")
update_actions(df) == SelectSeq(df, LAMBDA row : row.Action = "update")

\* faulty variant: the update block ahead of the delete block
next_phase_update_first(phase) ==
    CASE phase = "add" -> "update"
      [] phase = "update" -> "delete"
      [] phase = "delete" -> "write"

\* the order of the three blocks of apply_updates; "write" is the return
next_phase(phase) ==
    CASE phase = "add" -> "delete"
      [] phase = "delete" -> "update"
      [] phase = "update" -> "write"

\* faulty variant: a new column even when the name is already there
apply_add_always_append(df, quotes, row) ==
    [data |-> [columns |-> Append(df.columns, row.ColumnName),
               rows |-> [r \in 1..Len(df.rows) |->
                            Append(df.rows[r], row.NewValue)]],
     quotes |-> IF parses_numeric(row.NewValue) THEN quotes
                ELSE quotes \cup {row.ColumnName},
     branch |-> "add",
     rows_written |-> Len(df.rows)]

\* body of the add loop (lines 193-204)
apply_add(df, quotes, row) ==
    [data |-> set_column(df, row.ColumnName, row.NewValue),
     quotes |-> IF parses_numeric(row.NewValue) THEN quotes
                ELSE quotes \cup {row.ColumnName},
     branch |-> "add",
     rows_written |-> Len(df.rows)]

\* body of the delete loop (lines 209-213)
apply_delete(df, quotes, row) ==
    [data |-> IF has_column(df, row.ColumnName)
              THEN drop_column(df, row.ColumnName)
              ELSE df,
     quotes |-> quotes,
     branch |-> IF has_column(df, row.ColumnName) THEN "delete" ELSE "absent",
     rows_written |-> 0]

\* faulty variant: the second arm tests the lookup column alone
update_mode_lookup_col_only(has_lookup_col, has_lookup_val, has_current_val) ==
    IF has_lookup_col /\ has_lookup_val /\ has_current_val THEN "a"
    ELSE IF has_lookup_col THEN "b"
    ELSE IF has_current_val THEN "c"
    ELSE "d"

\* the if/elif/else chain of the update loop (lines 235-252)
update_mode(has_lookup_col, has_lookup_val, has_current_val) ==
    IF has_lookup_col /\ has_lookup_val /\ has_current_val THEN "a"
    ELSE IF has_lookup_col /\ has_lookup_val THEN "b"
    ELSE IF has_current_val THEN "c"
    ELSE "d"

\* faulty variant: | for & in the arm with both matches
update_mask_either(df, row, mode) ==
    LET on_lookup == smart_match(column(df, row.LookupColumn), row.LookupValue)
        on_current == smart_match(column(df, row.ColumnName), row.CurrentValue)
    IN CASE mode = "a" -> [r \in 1..Len(df.rows) |-> on_lookup[r] \/ on_current[r]]
         [] mode = "b" -> on_lookup
         [] mode = "c" -> on_current

\* the mask of an arm that assigns through .loc (lines 237, 243, 248)
update_mask(df, row, mode) ==
    LET on_lookup == smart_match(column(df, row.LookupColumn), row.LookupValue)
        on_current == smart_match(column(df, row.ColumnName), row.CurrentValue)
    IN CASE mode = "a" -> [r \in 1..Len(df.rows) |-> on_lookup[r] /\ on_current[r]]
         [] mode = "b" -> on_lookup
         [] mode = "c" -> on_current

\* faulty variant: a missing lookup column falls through to the arms that
\* need none
apply_update_lookup_fallthrough(df, quotes, row) ==
    LET mode == update_mode(notna(row.LookupColumn), notna(row.LookupValue),
                            notna(row.CurrentValue))
        skipped(b) == [data |-> df, quotes |-> quotes, branch |-> b,
                       rows_written |-> 0]
        through(mask) == [data |-> set_where(df, mask, row.ColumnName, row.NewValue),
                          quotes |-> quotes, branch |-> mode,
                          rows_written |-> mask_sum(mask)]
    IN IF ~has_column(df, row.ColumnName) THEN skipped("not_found")
       ELSE IF mode \in {"a", "b"}
            THEN IF has_column(df, row.LookupColumn)
                 THEN through(update_mask(df, row, mode))
                 ELSE IF mode = "a"
                      THEN through(update_mask(df, row, "c"))
                      ELSE [data |-> set_column(df, row.ColumnName, row.NewValue),
                            quotes |-> quotes, branch |-> "b_no_lookup",
                            rows_written |-> Len(df.rows)]
       ELSE IF mode = "c" THEN through(update_mask(df, row, mode))
       ELSE [data |-> set_column(df, row.ColumnName, row.NewValue),
             quotes |-> quotes, branch |-> "d", rows_written |-> Len(df.rows)]

\* body of the update loop (lines 219-254)
apply_update(df, quotes, row) ==
    LET mode == update_mode(notna(row.LookupColumn), notna(row.LookupValue),
                            notna(row.CurrentValue))
        skipped(b) == [data |-> df, quotes |-> quotes, branch |-> b,
                       rows_written |-> 0]
        through(mask) == [data |-> set_where(df, mask, row.ColumnName, row.NewValue),
                          quotes |-> quotes, branch |-> mode,
                          rows_written |-> mask_sum(mask)]
    IN IF ~has_column(df, row.ColumnName) THEN skipped("not_found")
       ELSE IF mode \in {"a", "b"}
            THEN IF has_column(df, row.LookupColumn)
                 THEN through(update_mask(df, row, mode))
                 ELSE skipped(IF mode = "a" THEN "a_no_lookup" ELSE "b_no_lookup")
       ELSE IF mode = "c" THEN through(update_mask(df, row, mode))
       ELSE [data |-> set_column(df, row.ColumnName, row.NewValue),
             quotes |-> quotes, branch |-> "d", rows_written |-> Len(df.rows)]

(***************************************************************************)
(* read_rpt_file (src/scode.py:29-114).                                    *)
(***************************************************************************)
Quote == "\""

\* p.startswith('"') and p.endswith('"') after p = p.strip()   (lines 98-99)
is_quoted(p) ==
    LET q == strip(p, Whitespace)
    IN startswith(q, <<Quote>>) /\ endswith(q, <<Quote>>)

\* index of the first line whose stripped text starts with ##, or 0 (lines 60-64)
footer_start(ls) ==
    LET hits == {k \in 1..Len(ls) : startswith(strip(ls[k], Whitespace), <<"#", "#">>)}
    IN IF hits = {} THEN 0 ELSE CHOOSE k \in hits : \A j \in hits : k <= j

\* one iteration of the loop over data_lines (lines 78-107); st holds the
\* locals columns (None while has_columns is FALSE), column_marker,
\* columns_with_quotes, first_data_row, all_data and the exception raised
parse_line(st, raw) ==
    LET line == strip(raw, Whitespace)
        parts == split(line, ",")
        fields == Tail(parts)
        col_parts == [k \in 1..Len(parts) |->
                         strip(strip(parts[k], {"!"}), Whitespace)]
        quoted == {k \in 1..Len(fields) : is_quoted(fields[k])}
        row_data == [k \in 1..Len(fields) |-> strip(fields[k], {Quote})]
    IN IF st.exc # "" THEN st
       ELSE IF line = <<>> \/ startswith(line, <<"#">>) THEN st
       ELSE IF ~st.has_columns /\ startswith(parts[1], <<"!">>)
            THEN [st EXCEPT !.has_columns = TRUE,
                            !.column_marker = col_parts[1],
                            !.columns = Tail(col_parts)]
       ELSE IF startswith(parts[1], <<"*">>)
            THEN IF st.first_data_row /\ quoted # {} /\ ~st.has_columns
                 THEN [st EXCEPT !.exc = "TypeError"]       \* len(None), line 99
                 ELSE [st EXCEPT
                         !.columns_with_quotes =
                             IF st.first_data_row
                             THEN @ \cup {st.columns[k] :
                                            k \in {j \in quoted : j <= Len(st.columns)}}
                             ELSE @,
                         !.first_data_row = FALSE,
                         !.all_data =
                             IF /\ row_data # <<>>
                                /\ st.has_columns /\ st.columns # <<>>
                                /\ Len(row_data) = Len(st.columns)
                             THEN Append(@, row_data)
                             ELSE @]
       ELSE st

RECURSIVE parse_lines(_, _)
parse_lines(st, data_lines) ==
    IF data_lines = <<>> THEN st
    ELSE parse_lines(parse_line(st, Head(data_lines)), Tail(data_lines))

\* the tuple read_rpt_file returns: arity is its length (4 at line 57, 5 at
\* lines 112 and 114), exc the exception it raised instead
read_rpt_file(ls) ==
    LET header == IF Len(ls) > 0 THEN ls[1] ELSE None
        fs == footer_start(ls)
        footer == IF fs # 0 THEN SubSeq(ls, fs, Len(ls)) ELSE <<>>
        data_lines == IF fs # 0 THEN SubSeq(ls, 2, fs - 1) ELSE SubSeq(ls, 2, Len(ls))
        st == parse_lines([has_columns |-> FALSE, columns |-> <<>>,
                           column_marker |-> None, columns_with_quotes |-> {},
                           first_data_row |-> TRUE, all_data |-> <<>>,
                           exc |-> ""],
                          data_lines)
    IN IF Len(ls) <= 1
       THEN [arity |-> 4, exc |-> "", df |-> EmptyDataFrame,
             header_line |-> header, footer_lines |-> <<>>,
             columns_with_quotes |-> {}, column_marker |-> None]
       ELSE [arity |-> 5, exc |-> st.exc,
             df |-> IF st.all_data # <<>> /\ st.has_columns /\ st.columns # <<>>
                    THEN [columns |-> st.columns, rows |-> st.all_data]
                    ELSE EmptyDataFrame,
             header_line |-> header, footer_lines |-> footer,
             columns_with_quotes |-> st.columns_with_quotes,
             column_marker |-> st.column_marker]

(***************************************************************************)
(* write_rpt_file (src/scode.py:117-169): the lines it writes.             *)
(***************************************************************************)
\* faulty variant: no value is quoted
format_value_unquoted(col_name, val, quotes) == val

\* lines 153-156
format_value(col_name, val, quotes) ==
    IF col_name \in quotes THEN <<Quote>> \o val \o <<Quote>> ELSE val

write_rpt_file(df, header, footer, quotes, marker) ==
    LET parts == split_ws(header)
        head == IF header = None THEN <<>>
                ELSE IF Len(parts) > 0
                THEN <<join(<<str_int(Len(df.columns))>> \o Tail(parts), <<" ">>)>>
                ELSE <<header>>
        col_line == IF marker # None /\ marker # <<>>
                    THEN <<"!">> \o marker \o <<",">> \o join(df.columns, <<",">>)
                    ELSE <<"!">> \o join(df.columns, <<",">>)
        data_line(row) ==
            <<"*", ",">> \o
            join([k \in 1..Len(df.columns) |->
                     format_value(df.columns[k], row[k], quotes)], <<",">>)
    IN head \o <<col_line>>
            \o [r \in 1..Len(df.rows) |-> data_line(df.rows[r])]
            \o << <<>> >>
            \o footer

(***************************************************************************)
(* The update engine as a state machine: one step per loop iteration of    *)
(* apply_updates, one step per loop exit.  pc names the block being run;   *)
(* pc = "write" is the state in which apply_updates has returned.          *)
(***************************************************************************)
file_vars == <<lines, header_line, footer_lines, column_marker, out_lines>>
match_vars == <<series, target_value, result>>
input_vars == <<has_excel, update_values_df, arg_data, arg_quotes>>

group(phase) ==
    CASE phase = "add" -> add_actions(update_values_df)
      [] phase = "delete" -> delete_actions(update_values_df)
      [] phase = "update" -> update_actions(update_values_df)

Iterate(phase, r, row) ==
    /\ rpt_data' = r.data
    /\ columns_with_quotes' = r.quotes
    /\ branch' = r.branch
    /\ rows_written' = r.rows_written
    /\ prev_data' = rpt_data
    /\ prev_quotes' = columns_with_quotes
    /\ last' = <<row>>
    /\ i' = i + 1
    /\ UNCHANGED <<pc, err, file_vars, match_vars, input_vars>>

\* lines 193-204
AddStep ==
    /\ pc = "add"
    /\ i <= Len(group("add"))
    /\ Iterate("add", apply_add(rpt_data, columns_with_quotes, group("add")[i]),
               group("add")[i])

\* lines 209-213
DeleteStep ==
    /\ pc = "delete"
    /\ i <= Len(group("delete"))
    /\ Iterate("delete",
               apply_delete(rpt_data, columns_with_quotes, group("delete")[i]),
               group("delete")[i])

\* lines 218-254
UpdateStep ==
    /\ pc = "update"
    /\ i <= Len(group("update"))
    /\ Iterate("update",
               apply_update(rpt_data, columns_with_quotes, group("update")[i]),
               group("update")[i])

\* a loop of apply_updates is exhausted: on to the next block, or return
PhaseDone ==
    /\ pc \in {"add", "delete", "update"}
    /\ i > Len(group(pc))
    /\ pc' = next_phase(pc)
    /\ i' = 1
    /\ UNCHANGED <<err, rpt_data, columns_with_quotes, branch, rows_written,
                   prev_data, prev_quotes, last, file_vars, match_vars,
                   input_vars>>

(***************************************************************************)
(* Inputs of the update engine runs.                                       *)
(***************************************************************************)
A == <<"A">>
B == <<"B">>
C == <<"C">>

Add(col, nv) ==
    [Action |-> "add", ColumnName |-> col, NewValue |-> nv,
     LookupColumn |-> NaN, LookupValue |-> NaN, CurrentValue |-> NaN]
Delete(col) ==
    [Action |-> "delete", ColumnName |-> col, NewValue |-> NaN,
     LookupColumn |-> NaN, LookupValue |-> NaN, CurrentValue |-> NaN]
Update(col, nv, lc, lv, cv) ==
    [Action |-> "update", ColumnName |-> col, NewValue |-> nv,
     LookupColumn |-> lc, LookupValue |-> lv, CurrentValue |-> cv]

\* instruction rows: C is a column the file does not have
Instructions ==
    {Add(C, <<"x">>), Add(C, <<"7">>), Add(B, <<"x">>), Add(B, <<"7">>),
     Delete(A), Delete(C),
     Update(B, <<"x">>, A, <<"5">>, <<"5">>),       \* lookup and current value
     Update(B, <<"x">>, C, <<"7">>, <<"5">>),       \* ... lookup column absent
     Update(B, <<"x">>, A, <<"5">>, NaN),           \* lookup only
     Update(B, <<"9">>, C, <<"7">>, NaN),           \* ... lookup column absent
     Update(B, <<"x">>, NaN, NaN, <<"5">>),         \* current value only
     Update(B, <<"7">>, NaN, NaN, <<"5">>),
     Update(B, <<"x">>, NaN, NaN, NaN),             \* unconditional
     Update(B, <<"x">>, A, NaN, <<"5">>),           \* half a lookup
     Update(B, <<"x">>, A, NaN, NaN),
     Update(B, <<"x">>, NaN, <<"5">>, <<"5">>),
     Update(B, <<"x">>, NaN, <<"5">>, NaN),
     Update(C, <<"x">>, NaN, NaN, NaN)}             \* target column absent

MainTable ==
    [columns |-> <<A, B>>,
     rows |-> << << <<"5">>, <<"5">> >>,
                 << <<"0", "5">>, <<"5", "x">> >>,
                 << <<"6">>, <<"0", "5">> >> >>]

EngineTables == {<<MainTable, {}>>, <<MainTable, {B}>>, <<EmptyDataFrame, {}>>}

InitEngine ==
    /\ pc = "add" /\ err = "" /\ i = 1
    /\ has_excel = TRUE
    /\ update_values_df \in BoundedSeq(Instructions, MaxInstr)
    /\ \E t \in EngineTables :
          /\ rpt_data = t[1] /\ arg_data = t[1] /\ prev_data = t[1]
          /\ columns_with_quotes = t[2] /\ arg_quotes = t[2] /\ prev_quotes = t[2]
    /\ last = <<>> /\ branch = "" /\ rows_written = 0
    /\ lines = <<>> /\ header_line = None /\ footer_lines = <<>>
    /\ column_marker = None /\ out_lines = <<>>
    /\ series = <<>> /\ target_value = None /\ result = <<>>

NextEngine == AddStep \/ DeleteStep \/ UpdateStep \/ PhaseDone

SpecEngine == InitEngine /\ [][NextEngine]_vars

(***************************************************************************)
(* The main script for one source file (src/scode.py:288-307).             *)
(***************************************************************************)
engine_vars == <<i, prev_data, prev_quotes, last, branch, rows_written>>

\* line 293: read_rpt_file and the unpacking of its result into five names
ReadFile ==
    /\ pc = "read"
    /\ LET r == read_rpt_file(lines)
           raised == IF r.exc # "" THEN r.exc
                     ELSE IF r.arity # 5 THEN "ValueError"
                     ELSE ""
       IN IF raised # ""
          THEN /\ err' = raised
               /\ pc' = "error"
               /\ UNCHANGED <<rpt_data, header_line, footer_lines,
                              columns_with_quotes, column_marker, arg_data,
                              arg_quotes, prev_data, prev_quotes>>
          ELSE /\ rpt_data' = r.df
               /\ header_line' = r.header_line
               /\ footer_lines' = r.footer_lines
               /\ columns_with_quotes' = r.columns_with_quotes
               /\ column_marker' = r.column_marker
               /\ arg_data' = r.df
               /\ arg_quotes' = r.columns_with_quotes
               /\ prev_data' = r.df
               /\ prev_quotes' = r.columns_with_quotes
               /\ pc' = IF has_excel THEN "add" ELSE "write"     \* line 299
               /\ err' = err
    /\ UNCHANGED <<lines, has_excel, update_values_df, i, last, branch,
                   rows_written, out_lines, match_vars>>

\* line 307
WriteFile ==
    /\ pc = "write"
    /\ out_lines' = write_rpt_file(rpt_data, header_line, footer_lines,
                                   columns_with_quotes, column_marker)
    /\ pc' = "done"
    /\ UNCHANGED <<err, lines, has_excel, update_values_df, rpt_data,
                   header_line, footer_lines, columns_with_quotes,
                   column_marker, arg_data, arg_quotes, engine_vars,
                   match_vars>>

(***************************************************************************)
(* Source files of the runs of the whole script.                           *)
(***************************************************************************)
Header == <<"2", " ", " ", "r">>                \* 2  r
DeclLine == <<"!", "1", ",", "A", ",", "B">>                       \* !1,A,B
SpacedDeclLine == <<"!", " ", "1", ",", " ", "A", " ", ",", "B">>               \* ! 1, A ,B
QuotedRow == <<"*", ",", "5", ",", "\"", "x", "\"">>                      \* *,5,"x"
PlainRow == <<"*", ",", "6", ".", "0", ",", "y">>   \* *,6.0,y
ShortRow == <<"*", ",", "6">>                       \* *,6
LongRow == <<"*", ",", "6", ",", "\"", "z", "\"", ",", "7">>                        \* *,6,"z",7
CommentLine == <<"#", "c">>                   \* #c
BlankLine == <<" ">>
FooterLine == <<"#", "#", "e">>                    \* ##e
TrailerLine == <<"t">>

Headers == {Header}
BodyLines == {DeclLine, SpacedDeclLine, QuotedRow, PlainRow, ShortRow, LongRow,
              CommentLine, BlankLine}
Footers == {<<>>, <<FooterLine, TrailerLine>>}

SourceFiles ==
    {<<>>} \cup {<<h>> : h \in Headers}
           \cup {<<h>> \o body \o f :
                    h \in Headers, body \in BoundedSeq(BodyLines, MaxBody),
                    f \in Footers}

\* no spreadsheet, an empty one, and one with a row of each action
ScriptInstructions ==
    {<<FALSE, <<>> >>, <<TRUE, <<>> >>,
     <<TRUE, <<Update(B, <<"7">>, NaN, NaN, <<"x">>), Delete(A), Add(C, <<"x">>)>> >>}

Init ==
    /\ pc = "read" /\ err = "" /\ i = 1
    /\ lines \in SourceFiles
    /\ \E x \in ScriptInstructions : has_excel = x[1] /\ update_values_df = x[2]
    /\ rpt_data = EmptyDataFrame /\ arg_data = EmptyDataFrame
    /\ prev_data = EmptyDataFrame
    /\ columns_with_quotes = {} /\ arg_quotes = {} /\ prev_quotes = {}
    /\ header_line = None /\ footer_lines = <<>> /\ column_marker = None
    /\ last = <<>> /\ branch = "" /\ rows_written = 0
    /\ out_lines = <<>>
    /\ series = <<>> /\ target_value = None /\ result = <<>>

Next == ReadFile \/ AddStep \/ DeleteStep \/ UpdateStep \/ PhaseDone \/ WriteFile

Spec == Init /\ [][Next]_vars

(***************************************************************************)
(* smart_match called on its own.                                          *)
(***************************************************************************)
CellValues == {<<"5">>, <<"0", "5">>, <<"5", "x">>, <<"a", "b", "c">>,
               <<"5", ".", "0">>, <<"6">>}
TargetValues == {<<"5">>, <<"0", "5">>, <<"5", ".", "0">>, <<"5", "x">>,
                 <<"a", "b", "c">>}

SmartMatchCall ==
    /\ pc = "call"
    /\ result' = smart_match(series, target_value)
    /\ pc' = "return"
    /\ UNCHANGED <<err, lines, has_excel, update_values_df, rpt_data,
                   header_line, footer_lines, columns_with_quotes,
                   column_marker, arg_data, arg_quotes, engine_vars, out_lines,
                   series, target_value>>

InitMatch ==
    /\ pc = "call" /\ err = "" /\ i = 1
    /\ series \in BoundedSeq(CellValues, MaxSeries)
    /\ target_value \in TargetValues
    /\ result = <<>>
    /\ lines = <<>> /\ has_excel = FALSE /\ update_values_df = <<>>
    /\ rpt_data = EmptyDataFrame /\ arg_data = EmptyDataFrame
    /\ prev_data = EmptyDataFrame
    /\ columns_with_quotes = {} /\ arg_quotes = {} /\ prev_quotes = {}
    /\ header_line = None /\ footer_lines = <<>> /\ column_marker = None
    /\ last = <<>> /\ branch = "" /\ rows_written = 0
    /\ out_lines = <<>>

NextMatch == SmartMatchCall

SpecMatch == InitMatch /\ [][NextMatch]_vars

(***************************************************************************)
(* Properties of the update engine.                                        *)
(***************************************************************************)
Handled(action) == last # <<>> /\ last[1].Action = action

\* smart_match on one cell
Matches(cell, target) == smart_match(<<cell>>, target)[1]

\* df is `before` with the cells of column name replaced by value in the
\* rows that satisfy sel, and nothing else changed
OnlyRowsSet(before, df, name, value, sel(_)) ==
    /\ df.columns = before.columns
    /\ Len(df.rows) = Len(before.rows)
    /\ \A r \in 1..Len(before.rows) : \A k \in 1..Len(before.columns) :
          df.rows[r][k] = IF before.columns[k] = name /\ sel(r)
                          THEN value
                          ELSE before.rows[r][k]

\* the instruction list re-sorted stably as adds, deletes, updates
Rank(row) ==
    CASE row.Action = "add" -> 1 [] row.Action = "delete" -> 2
      [] row.Action = "update" -> 3
StablySorted(table) ==
    SelectSeq(table, LAMBDA row : Rank(row) = 1)
        \o SelectSeq(table, LAMBDA row : Rank(row) = 2)
        \o SelectSeq(table, LAMBDA row : Rank(row) = 3)

\* the instructions run one after the other in list order
RECURSIVE RunInListOrder(_, _, _)
RunInListOrder(df, quotes, table) ==
    IF table = <<>> THEN <<df, quotes>>
    ELSE LET row == Head(table)
             r == CASE row.Action = "add" -> apply_add(df, quotes, row)
                    [] row.Action = "delete" -> apply_delete(df, quotes, row)
                    [] row.Action = "update" -> apply_update(df, quotes, row)
         IN RunInListOrder(r.data, r.quotes, Tail(table))

\* C1: when apply_updates returns, the table and the quoted-column set are
\* those of running the instruction list stably re-sorted as adds, then
\* deletes, then updates, whatever the order of the rows of the list; a
\* delete of C listed before an add of C leaves C absent.
C1_FixedProcessingOrder ==
    pc = "write" =>
        /\ <<rpt_data, columns_with_quotes>> =
               RunInListOrder(arg_data, arg_quotes, StablySorted(update_values_df))
        /\ \A j, k \in 1..Len(update_values_df) :
              (/\ j < k
               /\ update_values_df[j].Action = "delete"
               /\ update_values_df[k].Action = "add"
               /\ update_values_df[j].ColumnName = update_values_df[k].ColumnName)
                  => ~has_column(rpt_data, update_values_df[k].ColumnName)

\* a list that is not in add, delete, update order has been run to the end,
\* and running it in list order would have given another table
C1_Witness ==
    /\ pc = "write"
    /\ update_values_df = <<Delete(C), Add(C, <<"x">>)>>
    /\ arg_data = MainTable
    /\ ~has_column(rpt_data, C)
    /\ RunInListOrder(arg_data, arg_quotes, update_values_df)[1] # rpt_data

\* C2: an update on an existing column (its lookup column existing when one
\* is given) sets to NewValue exactly the rows whose own value matches
\* CurrentValue (CurrentValue alone), exactly the rows whose lookup value
\* matches LookupValue (LookupColumn and LookupValue alone), exactly the rows
\* satisfying both (all three), or every row (none of them); every other
\* cell of the table is unchanged.
C2_UpdateModes ==
    (/\ Handled("update")
     /\ has_column(prev_data, last[1].ColumnName)
     /\ notna(last[1].LookupColumn) => has_column(prev_data, last[1].LookupColumn)
     /\ notna(last[1].LookupColumn) <=> notna(last[1].LookupValue))
    => LET row == last[1]
           lookup(r) == Matches(column(prev_data, row.LookupColumn)[r],
                                row.LookupValue)
           current(r) == Matches(column(prev_data, row.ColumnName)[r],
                                 row.CurrentValue)
           sel(r) == /\ notna(row.LookupColumn) => lookup(r)
                     /\ notna(row.CurrentValue) => current(r)
       IN OnlyRowsSet(prev_data, rpt_data, row.ColumnName, row.NewValue, sel)

\* the three-field update has set the one row satisfying both matches, where
\* each match alone selects two rows
C2_Witness ==
    /\ Handled("update")
    /\ last[1] = Update(B, <<"x">>, A, <<"5">>, <<"5">>)
    /\ prev_data = MainTable
    /\ rows_written = 1
    /\ rpt_data # prev_data
    /\ mask_sum(smart_match(column(prev_data, A), <<"5">>)) = 2
    /\ mask_sum(smart_match(column(prev_data, B), <<"5">>)) = 2

\* C6: when apply_updates returns, a column into which the latest add, or
\* the latest update that wrote at least one row, put a NewValue that fails
\* numeric coercion is a member of the quoted-column set.
C6_QuotedSetExtended ==
    (/\ pc = "write"
     /\ last # <<>>
     /\ last[1].Action \in {"add", "update"}
     /\ ~parses_numeric(last[1].NewValue)
     /\ last[1].Action = "update" => (branch \in {"a", "b", "c", "d"} /\ rows_written >= 1))
    => last[1].ColumnName \in columns_with_quotes

\* C8: an add on an existing column sets every row of it to NewValue and
\* leaves its position, the other columns and the row count unchanged; on an
\* absent column it appends a column with every row equal to NewValue; the
\* same add applied again changes nothing; a numeric NewValue leaves the
\* quoted-column set as it was.
C8_AddIdempotent ==
    Handled("add") =>
        LET row == last[1]
            again == apply_add(rpt_data, columns_with_quotes, row)
        IN /\ IF has_column(prev_data, row.ColumnName)
              THEN OnlyRowsSet(prev_data, rpt_data, row.ColumnName, row.NewValue,
                               LAMBDA r : TRUE)
              ELSE /\ rpt_data.columns = Append(prev_data.columns, row.ColumnName)
                   /\ Len(rpt_data.rows) = Len(prev_data.rows)
                   /\ \A r \in 1..Len(prev_data.rows) :
                         rpt_data.rows[r] = Append(prev_data.rows[r], row.NewValue)
           /\ again.data = rpt_data
           /\ again.quotes = columns_with_quotes
           /\ parses_numeric(row.NewValue) => columns_with_quotes = prev_quotes

\* the same numeric add has run twice on an existing unquoted column
C8_Witness ==
    /\ Handled("add")
    /\ update_values_df = <<Add(B, <<"7">>), Add(B, <<"7">>)>>
    /\ i = 3
    /\ arg_data = MainTable
    /\ rpt_data = prev_data
    /\ rpt_data # arg_data
    /\ B \notin columns_with_quotes

\* C9: a delete naming an absent column, an update whose ColumnName is not
\* in the table, and an update with LookupColumn and LookupValue whose
\* LookupColumn is not in the table leave the table and the quoted-column
\* set unchanged, and the run goes on with the instructions that follow.
Skipped(row, df) ==
    \/ row.Action = "delete" /\ ~has_column(df, row.ColumnName)
    \/ row.Action = "update" /\ ~has_column(df, row.ColumnName)
    \/ /\ row.Action = "update"
       /\ notna(row.LookupColumn) /\ notna(row.LookupValue)
       /\ ~has_column(df, row.LookupColumn)

C9_SkippedChangeNothing ==
    (last # <<>> /\ Skipped(last[1], prev_data)) =>
        /\ rpt_data = prev_data
        /\ columns_with_quotes = prev_quotes
        /\ err = ""
        /\ pc \in {"add", "delete", "update", "write"}
        /\ pc = last[1].Action => (i >= 2 /\ group(pc)[i - 1] = last[1])
        /\ pc = "write" =>
              <<rpt_data, columns_with_quotes>> =
                  RunInListOrder(arg_data, arg_quotes, StablySorted(update_values_df))

\* an update whose lookup column is absent was skipped on a table with rows,
\* and the update listed after it still ran: the table is the one that the
\* second update alone gives
C9_Witness ==
    /\ pc = "write"
    /\ update_values_df = <<Update(B, <<"9">>, C, <<"7">>, NaN),
                            Update(B, <<"x">>, NaN, NaN, <<"5">>)>>
    /\ arg_data = MainTable
    /\ Skipped(update_values_df[1], arg_data)
    /\ rpt_data = RunInListOrder(arg_data, arg_quotes, Tail(update_values_df))[1]
    /\ rows_written = 2
    /\ rpt_data # arg_data

\* C10: an update on an existing column with exactly one of LookupColumn and
\* LookupValue ignores that field: with CurrentValue it sets the rows whose
\* own value matches CurrentValue, without it it sets every row; each of the
\* 8 presence combinations takes exactly one of the four arms.
ArmOf(lc, lv, cv) ==
    CASE lc /\ lv /\ cv -> {"a", "a_no_lookup"}
      [] lc /\ lv /\ ~cv -> {"b", "b_no_lookup"}
      [] ~(lc /\ lv) /\ cv -> {"c"}
      [] ~(lc /\ lv) /\ ~cv -> {"d"}

C10_PartialLookupIgnored ==
    (Handled("update") /\ has_column(prev_data, last[1].ColumnName)) =>
        LET row == last[1]
            current(r) == Matches(column(prev_data, row.ColumnName)[r],
                                  row.CurrentValue)
        IN /\ branch \in ArmOf(notna(row.LookupColumn), notna(row.LookupValue),
                               notna(row.CurrentValue))
           /\ (notna(row.LookupColumn) # notna(row.LookupValue)) =>
                 IF notna(row.CurrentValue)
                 THEN OnlyRowsSet(prev_data, rpt_data, row.ColumnName,
                                  row.NewValue, current)
                 ELSE OnlyRowsSet(prev_data, rpt_data, row.ColumnName,
                                  row.NewValue, LAMBDA r : TRUE)

\* a LookupColumn without LookupValue, and a CurrentValue: the two rows whose
\* own value matches were set, among them one the lookup would not select
C10_Witness ==
    /\ Handled("update")
    /\ last[1] = Update(B, <<"x">>, A, NaN, <<"5">>)
    /\ prev_data = MainTable
    /\ branch = "c"
    /\ rows_written = 2
    /\ rpt_data.rows[3][2] = <<"x">>

(***************************************************************************)
(* Properties of smart_match.                                              *)
(***************************************************************************)
\* C3: per row, with a target that parses as a number the result is true
\* exactly when the row value parses as a number equal to the target, or
\* does not parse as a number and equals the target's text; with any other
\* target it is true exactly when the row value's text equals the target's.
\* For ["5","05","5x","abc"] and target "5", rows 0 and 1 match only.
C3_SmartMatchSemantics ==
    pc = "return" =>
        /\ DOMAIN result = 1..Len(series)
        /\ \A r \in 1..Len(series) :
              result[r] <=>
                  IF parses_numeric(target_value)
                  THEN \/ /\ parses_numeric(series[r])
                          /\ numeric_value(series[r]) = numeric_value(target_value)
                       \/ /\ ~parses_numeric(series[r])
                          /\ series[r] = target_value
                  ELSE series[r] = target_value
        /\ (/\ series = << <<"5">>, <<"0", "5">>, <<"5", "x">>, <<"a", "b", "c">> >>
            /\ target_value = <<"5">>)
               => result = <<TRUE, TRUE, FALSE, FALSE>>

C3_Witness ==
    /\ pc = "return"
    /\ series = << <<"5">>, <<"0", "5">>, <<"5", "x">>, <<"a", "b", "c">> >>
    /\ target_value = <<"5">>
    /\ result = <<TRUE, TRUE, FALSE, FALSE>>

(***************************************************************************)
(* Properties of the parser and the writer.  A file is read here by the    *)
(* grammar of the format: header line, column-declaration line, data       *)
(* lines, footer from the first line that starts with ##.                  *)
(***************************************************************************)
FooterAt(f) ==
    LET hits == {k \in 1..Len(f) : startswith(f[k], <<"#", "#">>)}
    IN IF hits = {} THEN Len(f) + 1 ELSE CHOOSE k \in hits : \A j \in hits : k <= j

PlainText(p) == \A k \in 1..Len(p) : p[k] \notin Whitespace \cup {Quote, ",", "!"}

Wrapped(p) == Len(p) >= 2 /\ Head(p) = Quote /\ p[Len(p)] = Quote

Unwrapped(p) == IF Wrapped(p) THEN SubSeq(p, 2, Len(p) - 1) ELSE p

DeclaredColumns(decl) == Tail(split(Tail(decl), ","))
DeclaredMarker(decl) == Head(split(Tail(decl), ","))

WellFormedDecl(decl) ==
    /\ startswith(decl, <<"!">>)
    /\ Len(split(decl, ",")) >= 2
    /\ \A k \in 1..Len(split(Tail(decl), ",")) :
          LET p == split(Tail(decl), ",")[k] IN p # <<>> /\ PlainText(p)

WellFormedData(line, n) ==
    LET parts == split(line, ",")
    IN /\ Head(parts) = <<"*">>
       /\ Len(parts) - 1 = n
       /\ \A k \in 2..Len(parts) : PlainText(Unwrapped(parts[k]))

\* header line whose first token is the column count, one column-declaration
\* line, at least min_rows data lines of the right width, optional footer
WellFormedFile(f, min_rows) ==
    /\ Len(f) >= 2
    /\ FooterAt(f) >= 3 + min_rows
    /\ WellFormedDecl(f[2])
    /\ split_ws(f[1]) # <<>>
    /\ Head(split_ws(f[1])) = str_int(Len(DeclaredColumns(f[2])))
    /\ \A k \in 3..(FooterAt(f) - 1) :
          WellFormedData(f[k], Len(DeclaredColumns(f[2])))

\* what a file in the format says; blank lines carry nothing
Described(f) ==
    LET data == SelectSeq(SubSeq(f, 3, FooterAt(f) - 1),
                          LAMBDA line : startswith(line, <<"*">>))
    IN [count |-> Head(split_ws(f[1])),
        marker |-> DeclaredMarker(f[2]),
        columns |-> DeclaredColumns(f[2]),
        rows |-> [r \in 1..Len(data) |->
                     [k \in 1..(Len(split(data[r], ",")) - 1) |->
                         Unwrapped(split(data[r], ",")[k + 1])]],
        footer |-> SubSeq(f, FooterAt(f), Len(f))]

NoInstructions == ~has_excel \/ update_values_df = <<>>

RoundTrip(min_rows) ==
    (pc = "done" /\ NoInstructions /\ WellFormedFile(lines, min_rows)) =>
        LET again == read_rpt_file(out_lines)
        IN /\ Described(out_lines) = Described(lines)
           /\ again.exc = "" /\ again.arity = 5
           /\ again.df = rpt_data
           /\ again.columns_with_quotes = columns_with_quotes
           /\ again.column_marker = column_marker
           /\ again.footer_lines = footer_lines

\* C4 as stated: for every well-formed file with zero or more data lines
\* and no instructions, the written file has the column count, column
\* order, row count, row values and footer text of the original, and
\* parsing it again gives the same table, quoted-column set, column marker
\* and footer.
C4_RoundTripAnyRowCount == RoundTrip(0)

\* C4 for well-formed files with at least one data line: the written file
\* has the column count, column order, row count, row values and footer
\* text of the original, and parsing it again gives the same table,
\* quoted-column set, column marker and footer.
C4_RoundTripWithRows == RoundTrip(1)

\* a file with a footer whose first data row quotes a column that its second
\* data row does not quote has been written
C4_Witness ==
    /\ pc = "done"
    /\ ~has_excel
    /\ lines = <<Header, DeclLine, QuotedRow, PlainRow, FooterLine, TrailerLine>>
    /\ WellFormedFile(lines, 1)
    /\ Len(rpt_data.rows) = 2
    /\ columns_with_quotes = {B}
    /\ Len(out_lines) = 7

\* C5: for every sequence of input lines and every instruction sequence the
\* run reaches the writer without an error; a file of fewer than two lines
\* yields an empty table with only the header line as framing.
C5_NeverRaises ==
    /\ err = ""
    /\ pc # "error"
    /\ (pc # "read" /\ Len(lines) < 2) =>
          /\ arg_data = EmptyDataFrame
          /\ header_line = IF Len(lines) = 1 THEN lines[1] ELSE None
          /\ footer_lines = <<>>
          /\ arg_quotes = {}

\* the lines between header and footer that are neither blank nor comments
Candidates(f) ==
    SelectSeq(SubSeq(f, 2, FooterAt([k \in 1..Len(f) |-> strip(f[k], Whitespace)]) - 1),
              LAMBDA line : /\ strip(line, Whitespace) # <<>>
                            /\ ~startswith(strip(line, Whitespace), <<"#">>))

DeclLines(f) ==
    SelectSeq(Candidates(f), LAMBDA line : startswith(strip(line, Whitespace), <<"!">>))

DataLines(f) ==
    SelectSeq(Candidates(f), LAMBDA line : startswith(strip(line, Whitespace), <<"*">>))

FieldsOf(line) == Tail(split(strip(line, Whitespace), ","))

\* C7: for every input file with a column-declaration line, reading raises
\* no error and the rows of the table are exactly the data lines whose field
\* count equals the column count, in their original order.
C7_MalformedRowsFiltered ==
    (pc # "read" /\ DeclLines(lines) # <<>>) =>
        LET n == Len(FieldsOf(Head(DeclLines(lines))))
            good == SelectSeq(DataLines(lines), LAMBDA line : Len(FieldsOf(line)) = n)
        IN /\ err = ""
           /\ Len(arg_data.rows) = Len(good)
           /\ \A r \in 1..Len(good) :
                 arg_data.rows[r] = [k \in 1..n |-> Unwrapped(FieldsOf(good[r])[k])]

====
